---- MODULE Spec2Model ----
(***************************************************************************)
(* Model of psytools/imagen_psytools_download_json.py: the LimeSurvey      *)
(* JSON-RPC session (LimeSurveySession), its error normalisation           *)
(* (error2exception and the per-method "status" handling) and the          *)
(* synchronisation loop download_json.                                     *)
(*                                                                         *)
(* Python values are records tagged by "kind":                             *)
(*   None                      None                                        *)
(*   Str(s)                    a str that is not Base64-encoded JSON       *)
(*   B64(doc)                  a str holding base64(JSON text of doc)      *)
(*   Status(s)                 a dict with a 'status' item                 *)
(*   Dict0                     the empty dict {}                           *)
(*   ErrObj(c, m)              a dict {'code': c, 'message': m}            *)
(*   List(items)               a list                                      *)
(***************************************************************************)
EXTENDS Integers, Sequences, FiniteSets, TLC

VARIABLES
    run,              \* number of the current download_json run (0: none yet)
    pc,               \* position of download_json
    request_id,       \* LimeSurveySession.__request_id (class attribute)
    sent,             \* requests posted so far in this process, in order
    sess,             \* per LimeSurveySession instance: key, Requests session
    surveys,          \* download_json: value returned by session.surveys()
    idx,              \* download_json: position of the for loop in surveys
    psc1_from_token,  \* download_json: token -> PSC1 code of the current survey
    data,             \* download_json: json.dumps text of the current survey
    files,            \* file system under PSYTOOLS_FU3_MASTER_DIR: path -> text
    writes,           \* number of open(path, 'w') done by the current run
    exc,              \* exception that left / is leaving download_json
    upstream,         \* what the remote service holds (fixed once asked)
    history,          \* one record per finished run
    last              \* outcome of the latest call of a session method

VARIABLES
    dawba_file,       \* _create_psc2_file: the input file, header and lines
    psc2_file,        \* _create_psc2_file: text written to the output file
    convert,          \* _create_psc2_file: indices of the date columns
    position,         \* _create_psc2_file: number of the line the loop is at
    dawba_pc,         \* position of _create_psc2_file
    dawba_exc         \* exception that left _create_psc2_file

dvars == <<dawba_file, psc2_file, convert, position, dawba_pc, dawba_exc>>

VARIABLES
    titles,           \* two survey titles (surveyls_title)
    derived           \* the paths derived from them, once derived

pvars == <<titles, derived>>

vars == <<run, pc, request_id, sent, sess, surveys, idx, psc1_from_token,
          data, files, writes, exc, upstream, history, last, dawba_file,
          psc2_file, convert, position, dawba_pc, dawba_exc, titles,
          derived>>

-----------------------------------------------------------------------------
(* Bounds of the model *)

MaxRuns == 2         \* consecutive runs of download_json
MaxCalls == 3        \* requests built by direct users of LimeSurveySession
NSessions == 2       \* LimeSurveySession instances of direct users
MaxLines == 2        \* lines after the header of a DAWBA file
MaxTitle == 3        \* characters of a survey title whose path is derived

-----------------------------------------------------------------------------
(* Python values *)

None == [kind |-> "None"]
Str(s) == [kind |-> "str", s |-> s]
B64(doc) == [kind |-> "b64", doc |-> doc]
Status(s) == [kind |-> "status", status |-> s]
Dict0 == [kind |-> "dict0"]
ErrObj(c, m) == [kind |-> "error", code |-> c, message |-> m]
List(items) == [kind |-> "list", items |-> items]

\* bool(x)
Truthy(x) ==
    CASE x.kind = "None" -> FALSE
      [] x.kind = "dict0" -> FALSE
      [] x.kind = "str" -> x.s # ""
      [] x.kind = "list" -> x.items # <<>>
      [] OTHER -> TRUE

\* x['status'] succeeds (neither TypeError nor KeyError)
HasStatus(x) == x.kind = "status"

\* base64.b64decode(x) raises TypeError: x is neither str nor bytes-like
B64TypeError(x) == x.kind \notin {"str", "b64"}

\* outcome of a call: a returned value, a returned (response, error) pair,
\* or a raised exception
Return(v) == [raised |-> FALSE, value |-> v]
Pair(r, e) == [raised |-> FALSE, response |-> r, error |-> e]
Raise(t, c, m) == [raised |-> TRUE, etype |-> t, code |-> c, message |-> m]

NoTokensFound == "No Tokens found"
NoData == "No Data, could not get max id."
ExpectedB64 == "JSON-RPC function \"export_responses\" expected a Base64-encoded string"
UnexpectedType == "Unexpected JSON-RPC error type"
ImplementationDefined == -32099
InternalError == -32603

-----------------------------------------------------------------------------
(* LimeSurveySession: request building, transport, error normalisation *)

\* _request(method, params) with the id _generate_request_id() returned
_request(id, method, params) ==
    [jsonrpc |-> "2.0", id |-> id, method |-> method, params |-> params]

\* id of the decoded response: the request's id unless the reply is for
\* another request
ResponseId(request, reply) == IF reply.idok THEN request.id ELSE 0

\* a _post that does not compare the ids
_post_unchecked(request, reply) ==
    IF reply.net # "ok" THEN Raise("ConnectionError", 0, "")
    ELSE Pair(reply.result, reply.error)

\* _post(request) when the service answers reply
_post(request, reply) ==
    IF reply.net # "ok" THEN Raise("ConnectionError", 0, "")
    ELSE IF ResponseId(request, reply) # request.id
         THEN Raise("AssertionError", 0, "")
         ELSE Pair(reply.result, reply.error)

\* error2exception: wrapper(func result)
error2exception(f) ==
    IF f.raised THEN f
    ELSE IF Truthy(f.error)
         THEN IF f.error.kind = "error"
              THEN Raise("LimeSurveyError", f.error.code, f.error.message)
              ELSE Raise("LimeSurveyError", InternalError, UnexpectedType)
         ELSE Return(f.response)

\* _get_session_key, after p = _post(request)
_get_session_key(p) ==
    IF p.raised THEN p
    ELSE IF HasStatus(p.response) THEN Return(None)
    ELSE IF p.error # None THEN Return(None)
    ELSE Return(p.response)

\* surveys, participant_properties: return self._post(request)
surveys_body(p) == p

\* a participants() that trusts the error object when there is one
participants_body_keep_error(p) ==
    IF p.raised THEN p
    ELSE IF HasStatus(p.response)
         THEN IF p.response.status = NoTokensFound
              THEN Pair(List(<<>>), None)
              ELSE Pair(List(<<>>),
                        IF p.error # None THEN p.error
                        ELSE ErrObj(ImplementationDefined, p.response.status))
         ELSE p

\* a participants() for which every status is an error
participants_body_no_sentinel(p) ==
    IF p.raised THEN p
    ELSE IF HasStatus(p.response)
         THEN Pair(List(<<>>), ErrObj(ImplementationDefined, p.response.status))
         ELSE p

\* participants, after p = _post(request), before the decorator
participants_body(p) ==
    IF p.raised THEN p
    ELSE IF HasStatus(p.response)
         THEN IF p.response.status = NoTokensFound
              THEN Pair(List(<<>>), None)
              ELSE Pair(List(<<>>),
                        ErrObj(ImplementationDefined, p.response.status))
         ELSE p

\* a responses() that leaves the error object alone on its sentinel
responses_body_keep_error(p) ==
    IF p.raised THEN p
    ELSE IF p.response.kind = "b64" THEN Pair(p.response.doc, p.error)
    ELSE IF ~B64TypeError(p.response) THEN Raise("ValueError", 0, "")
    ELSE IF ~HasStatus(p.response)
         THEN Pair([kind |-> "doc", has |-> TRUE, responses |-> <<>>],
                   ErrObj(ImplementationDefined, ExpectedB64))
    ELSE IF p.response.status = NoData
         THEN Pair([kind |-> "doc", has |-> TRUE, responses |-> <<>>], p.error)
         ELSE Pair([kind |-> "doc", has |-> TRUE, responses |-> <<>>],
                   ErrObj(ImplementationDefined, p.response.status))

\* responses, after p = _post(request), before the decorator
responses_body(p) ==
    IF p.raised THEN p
    ELSE IF p.response.kind = "b64" THEN Pair(p.response.doc, p.error)
    ELSE IF ~B64TypeError(p.response) THEN Raise("ValueError", 0, "")
    ELSE IF ~HasStatus(p.response)
         THEN Pair([kind |-> "doc", has |-> TRUE, responses |-> <<>>],
                   ErrObj(ImplementationDefined, ExpectedB64))
    ELSE IF p.response.status = NoData
         THEN Pair([kind |-> "doc", has |-> TRUE, responses |-> <<>>], None)
         ELSE Pair([kind |-> "doc", has |-> TRUE, responses |-> <<>>],
                   ErrObj(ImplementationDefined, p.response.status))

\* the decorated methods, as download_json and other users call them
session_surveys(p) == error2exception(surveys_body(p))
session_participants(p) == error2exception(participants_body(p))
session_participant_properties(p) == error2exception(surveys_body(p))
session_responses(p) == error2exception(responses_body(p))

-----------------------------------------------------------------------------
(* download_json: token -> PSC1 mapping, re-keying, serialisation, path *)

\* an assignment that keeps the earlier item of the same key as well
DictAppend(d, key, value) == Append(d, [key |-> key, value |-> value])

\* a Python dict is the sequence of its items [key, value] in insertion
\* order, keys distinct; d[key] = value
DictSet(d, key, value) ==
    IF \E i \in 1..Len(d) : d[i].key = key
    THEN [i \in 1..Len(d) |->
             IF d[i].key = key THEN [key |-> key, value |-> value] ELSE d[i]]
    ELSE Append(d, [key |-> key, value |-> value])

DictKeys(d) == {d[i].key : i \in 1..Len(d)}
DictGet(d, key) == (CHOOSE i \in 1..Len(d) : d[i].key = key)
DictValue(d, key) == d[DictGet(d, key)].value

\* a mapping to the participant's tid instead of its attribute_1
RECURSIVE BuildMappingTid(_, _)
BuildMappingTid(plist, acc) ==
    IF plist = <<>> THEN acc
    ELSE BuildMappingTid(Tail(plist),
                         DictSet(acc, Head(plist).token, Head(plist).tid))

\* psc1_from_token after the loop over participants (lines 257-262)
RECURSIVE BuildMapping(_, _)
BuildMapping(plist, acc) ==
    IF plist = <<>> THEN acc
    ELSE BuildMapping(Tail(plist),
                      DictSet(acc, Head(plist).token, Head(plist).attribute_1))

\* psc1_from_token[v['token']] raises KeyError for some item of some element
RekeyKeyError(doc, mapping) ==
    \E i \in 1..Len(doc.responses) : \E j \in 1..Len(doc.responses[i]) :
        doc.responses[i][j].value.token \notin DictKeys(mapping)

\* {psc1_from_token[v['token']]: v for k, v in r.items()}
RECURSIVE RekeyElement(_, _, _)
RekeyElement(r, mapping, acc) ==
    IF r = <<>> THEN acc
    ELSE RekeyElement(Tail(r), mapping,
                      DictSet(acc, DictValue(mapping, Head(r).value.token),
                              Head(r).value))

\* the list comprehension of lines 271-273 when every lookup succeeds
Rekey(doc, mapping) ==
    [doc EXCEPT !.responses =
        [i \in 1..Len(doc.responses) |->
            RekeyElement(doc.responses[i], mapping, <<>>)]]

\* the document without the items whose token is not in mapping
DropUnmapped(doc, mapping) ==
    LET Mapped(item) == item.value.token \in DictKeys(mapping)
    IN [doc EXCEPT !.responses =
           [i \in 1..Len(doc.responses) |->
               SelectSeq(doc.responses[i], Mapped)]]

\* a re-keying that drops the items it cannot look up
rekey_dropping(doc, mapping) ==
    IF doc.has THEN Return(Rekey(DropUnmapped(doc, mapping), mapping))
    ELSE Return(doc)

\* lines 270-273: responses re-keyed, or the KeyError of a failed lookup
rekey(doc, mapping) ==
    IF ~doc.has THEN Return(doc)
    ELSE IF RekeyKeyError(doc, mapping) THEN Raise("KeyError", 0, "")
    ELSE Return(Rekey(doc, mapping))

\* items of a dict in the order sort_keys=True writes them
RECURSIVE SortItems(_)
SortItems(d) ==
    IF d = <<>> THEN <<>>
    ELSE LET m == CHOOSE i \in 1..Len(d) :
                      \A j \in 1..Len(d) : d[i].key <= d[j].key
         IN <<d[m]>> \o SortItems([i \in 1..(Len(d) - 1) |->
                                     IF i < m THEN d[i] ELSE d[i + 1]])

\* json.dumps without sort_keys: the items of a dict in the order the
\* process iterates it, which differs from one process to the next
json_dumps_unsorted(doc) ==
    [has |-> doc.has,
     text |-> [i \in 1..Len(doc.responses) |->
                  IF run % 2 = 0
                  THEN [j \in 1..Len(doc.responses[i]) |->
                           doc.responses[i][Len(doc.responses[i]) + 1 - j]]
                  ELSE doc.responses[i]]]

\* json.dumps(responses, indent=4, separators=(',', ': '), sort_keys=True)
json_dumps(doc) ==
    [has |-> doc.has,
     text |-> [i \in 1..Len(doc.responses) |-> SortItems(doc.responses[i])]]

\* str.replace(old, new) on a string given as its sequence of characters
RECURSIVE Replace(_, _, _)
Replace(s, old, new) ==
    IF Len(s) < Len(old) THEN s
    ELSE IF SubSeq(s, 1, Len(old)) = old
         THEN new \o Replace(SubSeq(s, Len(old) + 1, Len(s)), old, new)
         ELSE <<Head(s)>> \o Replace(Tail(s), old, new)

\* a derivation that removes the spaces instead of replacing them
psytools_path_no_space(title) ==
    Replace(Replace(title, <<" ", "-", " ">>, <<"-">>), <<" ">>, <<>>)
        \o <<".json">>

\* lines 278-282, below PSYTOOLS_FU3_MASTER_DIR
psytools_path(title) ==
    Replace(Replace(title, <<" ", "-", " ">>, <<"-">>), <<" ">>, <<"_">>)
        \o <<".json">>

-----------------------------------------------------------------------------
(* What the remote service may answer *)

Unset == [net |-> "unset"]

\* a reply: the HTTP exchange worked or not, the decoded response's id is
\* the request's or not, and its 'result' and 'error' members
Reply(r, e) == [net |-> "ok", idok |-> TRUE, result |-> r, error |-> e]
Down == [net |-> "down", idok |-> TRUE, result |-> None, error |-> None]
Mismatch == [net |-> "ok", idok |-> FALSE, result |-> None, error |-> None]

RpcError == ErrObj(-32602, "Invalid params")
BadStatus == "Invalid session key"

Participant(tid, token, psc1) ==
    [tid |-> tid, token |-> token, attribute_1 |-> psc1]

\* response item k of an element: {k: {'token': token, 'q': k}}
Item(k, token) == [key |-> k, value |-> [token |-> token, q |-> k]]

Doc(elements) == [kind |-> "doc", has |-> TRUE, responses |-> elements]
DocNoList == [kind |-> "doc", has |-> FALSE, responses |-> <<>>]

Titles == { <<"a", " ", "b">>, <<"a", "_", "b">>, <<"a", " ", "-", " ", "b">> }

Survey(sid, title) == [sid |-> sid, surveyls_title |-> title]

\* the surveys the service may hold: any prefix of the sids, any titles
Sids == {1, 2}
SurveyLists ==
    UNION { {[i \in 1..n |-> Survey(i, t[i])] : t \in [1..n -> Titles]}
            : n \in 0..Cardinality(Sids) }

\* the participant tables a survey may have: one token; two tokens of two
\* subjects; two tokens of one subject
ParticipantLists ==
    { <<Participant(1, "tA", 1)>>,
      <<Participant(1, "tA", 2), Participant(2, "tB", 1)>>,
      <<Participant(1, "tA", 1), Participant(2, "tB", 1)>> }

\* the exports a survey may have: no 'responses' member; one response;
\* two elements of one response each; one element of two responses
Docs ==
    { DocNoList,
      Doc(<<<<Item(1, "tA")>>>>),
      Doc(<<<<Item(1, "tB")>>, <<Item(2, "tA")>>>>),
      Doc(<<<<Item(1, "tA"), Item(2, "tB")>>>>) }

Failures == {Down, Mismatch}

\* the key the service issues, and its answer to any other key
IssuedKey == Str("KEY")
Rejections == {Reply(Status(BadStatus), None)} \cup Failures

AuthReplies ==
    {Reply(r, e) : r \in {IssuedKey, Status("Invalid user name or password"),
                          None},
                   e \in {None, RpcError}} \cup Failures

ReleaseReplies ==
    {Reply(Str("OK"), None), Reply(Status("OK"), None), Reply(None, RpcError)}
        \cup Failures

SurveysReplies ==
    {Reply(List(l), None) : l \in SurveyLists}
        \cup {Reply(Status(BadStatus), None), Reply(None, RpcError),
              Reply(None, None)}
        \cup Failures

ParticipantsReplies ==
    {Reply(List(l), None) : l \in ParticipantLists}
        \cup {Reply(Status(NoTokensFound), None),
              Reply(Status(BadStatus), None), Reply(None, RpcError),
              Reply(None, None)}
        \cup Failures

ExportReplies ==
    {Reply(B64(d), None) : d \in Docs}
        \cup {Reply(Status(NoData), None),
              Reply(Status(BadStatus), None), Reply(None, RpcError),
              Reply(Str("KEY"), None)}
        \cup Failures

\* the service's answer to a request of download_json carrying key: what
\* it holds (stored), once chosen among replies, for the key it issued; a
\* rejection for any other key
Answers(key, stored, replies) ==
    IF key # IssuedKey THEN Rejections
    ELSE IF stored = Unset THEN replies ELSE {stored}
Remember(key, stored, reply) == IF key = IssuedKey THEN reply ELSE stored

-----------------------------------------------------------------------------
(* State *)

Sessions == 1..NSessions
Paths == {psytools_path(t) : t \in Titles}

NoFile == [kind |-> "nofile"]
NoExc == [raised |-> FALSE]
NoSession == [made |-> FALSE, key |-> None, http |-> "none"]
NoCall == [op |-> "none"]

\* _create_psc2_file is not running
NoDawba ==
    /\ dawba_file = [header |-> <<>>, lines |-> <<>>]
    /\ psc2_file = <<>>
    /\ convert = {}
    /\ position = 0
    /\ dawba_pc = "idle"
    /\ dawba_exc = NoExc

\* no path is being derived outside download_json
NoTitles == titles = <<>> /\ derived = <<>>

Init ==
    /\ run = 0
    /\ pc = "idle"
    /\ request_id = 0
    /\ sent = <<>>
    /\ sess = [s \in Sessions |-> NoSession]
    /\ surveys = None
    /\ idx = 0
    /\ psc1_from_token = <<>>
    /\ data = NoFile
    /\ files = [p \in Paths |-> NoFile]
    /\ writes = 0
    /\ exc = NoExc
    /\ upstream = [surveys |-> Unset,
                   participants |-> [i \in Sids |-> Unset],
                   responses |-> [i \in Sids |-> Unset]]
    /\ history = <<>>
    /\ last = NoCall
    /\ NoDawba
    /\ NoTitles

\* the instance download_json works with
Main == 1

\* a counter that every new instance starts again
NewRequestPerInstance(method, params) ==
    _request(IF method = "get_session_key" THEN 1 ELSE request_id + 1,
             method, params)

\* the request a method builds: _generate_request_id() then _request()
NewRequest(method, params) == _request(request_id + 1, method, params)

\* self.session.post(...): the request leaves and the counter has advanced
Posted(request) ==
    /\ request_id' = request.id
    /\ sent' = Append(sent, request)

\* the run is over: exception e (or none) has left download_json after w
\* writes
Finished(e, w) ==
    history' = Append(history,
                      [complete |-> ~e.raised, writes |-> w, files |-> files])

\* "for x in value": the items, or TypeError when value is not iterable or
\* its items cannot be subscripted by a field name
Iterable(v) == v.kind = "list" \/ (v.kind # "None" /\ ~Truthy(v))
Items(v) == IF v.kind = "list" THEN v.items ELSE <<>>

-----------------------------------------------------------------------------
(* download_json *)

\* lines 247-248 and LimeSurveySession.__init__ (63-70) in a new process
Construct ==
    /\ pc \in {"idle", "done"}
    /\ run < MaxRuns
    /\ run' = run + 1
    /\ LET request == _request(1, "get_session_key", <<"username", "password">>)
       IN \E reply \in AuthReplies :
            LET out == _get_session_key(_post(request, reply))
            IN /\ request_id' = request.id
               /\ sent' = <<request>>
               /\ IF out.raised
                  THEN /\ sess' = [s \in Sessions |->
                                     IF s = Main
                                     THEN [made |-> FALSE, key |-> None,
                                           http |-> "open"]
                                     ELSE NoSession]
                       /\ exc' = out
                       /\ pc' = "done"
                       /\ Finished(out, 0)
                  ELSE /\ sess' = [s \in Sessions |->
                                     IF s = Main
                                     THEN [made |-> TRUE, key |-> out.value,
                                           http |-> "open"]
                                     ELSE NoSession]
                       /\ exc' = NoExc
                       /\ pc' = "surveys"
                       /\ UNCHANGED history
    /\ surveys' = None
    /\ idx' = 0
    /\ psc1_from_token' = <<>>
    /\ data' = NoFile
    /\ writes' = 0
    /\ UNCHANGED <<files, upstream, last>>
    /\ UNCHANGED <<dvars, pvars>>

\* an exception that skips __exit__
LeaveWithoutExit(e) ==
    /\ exc' = e
    /\ pc' = IF e.raised THEN "done" ELSE "exit"
    /\ UNCHANGED idx

\* an exception of one survey that is caught in the loop, which goes on
\* with the next survey
LeaveSurvey(e) ==
    IF e.raised /\ pc \in {"participants", "responses"}
       /\ idx < Len(surveys.items)
    THEN exc' = e /\ pc' = "participants" /\ idx' = idx + 1
    ELSE exc' = e /\ pc' = "exit" /\ UNCHANGED idx

\* the with body (248-296) is left, by exception e or normally: nothing
\* in the loop catches e, and __exit__ runs next
Leave(e) ==
    /\ exc' = e
    /\ pc' = "exit"
    /\ UNCHANGED idx

\* line 249 and the start of the loop (250)
Surveys ==
    /\ pc = "surveys"
    /\ LET request == NewRequest("list_surveys", <<sess[Main].key>>)
       IN \E reply \in Answers(sess[Main].key, upstream.surveys,
                                SurveysReplies) :
            /\ upstream' = [upstream EXCEPT !.surveys =
                               Remember(sess[Main].key, @, reply)]
            /\ Posted(request)
            /\ LET out == session_surveys(_post(request, reply))
               IN IF out.raised
                  THEN Leave(out) /\ UNCHANGED surveys
                  ELSE IF ~Iterable(out.value)
                  THEN Leave(Raise("TypeError", 0, ""))
                       /\ surveys' = out.value
                  ELSE /\ surveys' = out.value
                       /\ IF Items(out.value) = <<>>
                          THEN Leave(NoExc)
                          ELSE idx' = 1 /\ pc' = "participants"
                               /\ UNCHANGED exc
    /\ UNCHANGED <<run, sess, psc1_from_token, data, files, writes, history,
                   last>>
    /\ UNCHANGED <<dvars, pvars>>

\* a mapping that is carried over from the previous survey
KeptMapping(previous) == previous

\* line 255: psc1_from_token = {} at the start of every survey
FreshMapping(previous) == <<>>

\* lines 251-262
Participants ==
    /\ pc = "participants"
    /\ LET sid == surveys.items[idx].sid
           request == NewRequest("list_participants",
                         <<sess[Main].key, sid, 0, 5000, FALSE,
                           <<"attribute_1">>>>)
       IN \E reply \in Answers(sess[Main].key, upstream.participants[sid],
                                ParticipantsReplies) :
            /\ upstream' = [upstream EXCEPT !.participants[sid] =
                               Remember(sess[Main].key, @, reply)]
            /\ Posted(request)
            /\ LET out == session_participants(_post(request, reply))
               IN IF out.raised
                  THEN Leave(out) /\ psc1_from_token' = <<>>
                  ELSE IF ~Iterable(out.value)
                  THEN Leave(Raise("TypeError", 0, ""))
                       /\ psc1_from_token' = <<>>
                  ELSE /\ psc1_from_token' =
                            BuildMapping(Items(out.value),
                                         FreshMapping(psc1_from_token))
                       /\ pc' = "responses"
                       /\ UNCHANGED <<exc, idx>>
    /\ UNCHANGED <<run, sess, surveys, data, files, writes, history, last>>
    /\ UNCHANGED <<dvars, pvars>>

\* lines 264-275
Responses ==
    /\ pc = "responses"
    /\ LET sid == surveys.items[idx].sid
           request == NewRequest("export_responses",
                         <<sess[Main].key, sid, "json", "fr", "all">>)
       IN \E reply \in Answers(sess[Main].key, upstream.responses[sid],
                                ExportReplies) :
            /\ upstream' = [upstream EXCEPT !.responses[sid] =
                               Remember(sess[Main].key, @, reply)]
            /\ Posted(request)
            /\ LET out == session_responses(_post(request, reply))
                   rekeyed == rekey(out.value, psc1_from_token)
               IN IF out.raised
                  THEN Leave(out) /\ UNCHANGED data
                  ELSE IF rekeyed.raised
                  THEN Leave(rekeyed) /\ UNCHANGED data
                  ELSE /\ data' = json_dumps(rekeyed.value)
                       /\ pc' = "save"
                       /\ UNCHANGED <<exc, idx>>
    /\ UNCHANGED <<run, sess, surveys, psc1_from_token, files, writes,
                   history, last>>
    /\ UNCHANGED <<dvars, pvars>>

\* a skip of every file that exists
UnchangedIfExists(path) == files[path] # NoFile

\* lines 284-291: the file exists and holds exactly data
Unchanged(path) == files[path] # NoFile /\ files[path] = data

\* a loop that lists the participants of the first survey only
SaveThenExport ==
    /\ pc = "save"
    /\ LET path == psytools_path(surveys.items[idx].surveyls_title)
       IN IF Unchanged(path)
          THEN UNCHANGED <<files, writes>>
          ELSE /\ files' = [files EXCEPT ![path] = data]
               /\ writes' = writes + 1
    /\ IF idx < Len(surveys.items)
       THEN idx' = idx + 1 /\ pc' = "responses" /\ UNCHANGED exc
       ELSE Leave(NoExc)
    /\ UNCHANGED <<run, request_id, sent, sess, surveys, psc1_from_token, data,
                   upstream, history, last>>
    /\ UNCHANGED <<dvars, pvars>>

\* lines 277-296, then the next survey of the loop
Save ==
    /\ pc = "save"
    /\ LET path == psytools_path(surveys.items[idx].surveyls_title)
       IN IF Unchanged(path)
          THEN UNCHANGED <<files, writes>>
          ELSE /\ files' = [files EXCEPT ![path] = data]
               /\ writes' = writes + 1
    /\ IF idx < Len(surveys.items)
       THEN idx' = idx + 1 /\ pc' = "participants" /\ UNCHANGED exc
       ELSE Leave(NoExc)
    /\ UNCHANGED <<run, request_id, sent, sess, surveys, psc1_from_token, data,
                   upstream, history, last>>
    /\ UNCHANGED <<dvars, pvars>>

\* close() (79-83) of session s when the service answers reply: the
\* instance afterwards, or the exception _release_session_key let through
close(s, request, reply) ==
    LET p == _post(request, reply)
    IN IF p.raised
       THEN [raised |-> TRUE, exc |-> p, session |-> sess[s]]
       ELSE [raised |-> FALSE, exc |-> NoExc,
             session |-> [sess[s] EXCEPT !.key = None, !.http = "closed"]]

\* __exit__ (75-77) and the end of download_json
Exit ==
    /\ pc = "exit"
    /\ LET request == NewRequest("release_session_key", <<sess[Main].key>>)
       IN \E reply \in ReleaseReplies :
            LET c == close(Main, request, reply)
                e == IF c.raised THEN c.exc ELSE exc
            IN /\ Posted(request)
               /\ sess' = [sess EXCEPT ![Main] = c.session]
               /\ exc' = e
               /\ Finished(e, writes)
    /\ pc' = "done"
    /\ UNCHANGED <<run, surveys, idx, psc1_from_token, data, files, writes,
                   upstream, last>>
    /\ UNCHANGED <<dvars, pvars>>

Next ==
    \/ Construct
    \/ Surveys
    \/ Participants
    \/ Responses
    \/ Save
    \/ Exit

Spec == Init /\ [][Next]_vars

-----------------------------------------------------------------------------
(* Direct use of LimeSurveySession: any instance, any method, any order; *)
(* the service answers anything                                          *)

\* an error member that is a mapping with a 'code' and no 'message'
PartialError == [kind |-> "partial", code |-> -32000]

RpcErrors == {None, RpcError, Str("oops"), Dict0, PartialError}

ParticipantsResults ==
    {List(<<>>), List(<<Participant(1, "tA", 1)>>), Status(NoTokensFound),
     Status(NoData), Status(BadStatus), Status(""), None, Dict0}

ExportResults ==
    {B64(DocNoList), B64(Doc(<<<<Item(1, "tA")>>>>)), Str("KEY"),
     Status(NoData), Status(NoTokensFound), Status(BadStatus), Status(""),
     None, List(<<>>)}

SurveysResults ==
    {List(<<>>), List(<<Survey(1, <<"a">>)>>), Status(BadStatus), None}

\* the same replies, decoded with the id of another request
Misdirected(replies) == {[r EXCEPT !.idok = FALSE] : r \in replies}

AnyReplies(results) ==
    LET answers == {Reply(r, e) : r \in results, e \in RpcErrors}
        other == {Reply(r, None) : r \in results} \cup {Reply(None, RpcError)}
    IN answers \cup Misdirected(other) \cup Failures

\* what a call did: the method, the instance as it was, the request, the
\* service's reply and the call's outcome
Called(op, s, request, reply, out) ==
    last' = [op |-> op, session |-> s, before |-> sess[s],
             request |-> request, reply |-> reply, out |-> out]

\* LimeSurveySession(url, username, password)
ApiNew(s) ==
    /\ pc = "idle"
    /\ sess[s] = NoSession
    /\ request_id < MaxCalls
    /\ LET request == NewRequest("get_session_key", <<"username", "password">>)
       IN \E reply \in AuthReplies \cup Misdirected(AuthReplies) :
            LET out == _get_session_key(_post(request, reply))
            IN /\ Posted(request)
               /\ sess' = [sess EXCEPT ![s] =
                             IF out.raised
                             THEN [made |-> FALSE, key |-> None, http |-> "open"]
                             ELSE [made |-> TRUE, key |-> out.value,
                                   http |-> "open"]]
               /\ Called("__init__", s, request, reply, out)
    /\ UNCHANGED <<run, pc, surveys, idx, psc1_from_token, data, files, writes,
                   exc, upstream, history>>
    /\ UNCHANGED <<dvars, pvars>>

\* a method of an instance that was constructed, whatever its state
ApiMethod(s, op, request, replies) ==
    /\ pc = "idle"
    /\ sess[s].made
    /\ request_id < MaxCalls
    /\ \E reply \in replies :
         LET p == _post(request, reply)
             out == CASE op = "surveys" -> session_surveys(p)
                      [] op = "participants" -> session_participants(p)
                      [] op = "participant_properties" ->
                             session_participant_properties(p)
                      [] op = "responses" -> session_responses(p)
         IN /\ Posted(request)
            /\ Called(op, s, request, reply, out)
    /\ UNCHANGED <<run, pc, sess, surveys, idx, psc1_from_token, data, files,
                   writes, exc, upstream, history>>
    /\ UNCHANGED <<dvars, pvars>>

ApiSurveys(s) ==
    ApiMethod(s, "surveys", NewRequest("list_surveys", <<sess[s].key>>),
              AnyReplies(SurveysResults))

ApiParticipants(s) ==
    ApiMethod(s, "participants",
              NewRequest("list_participants",
                         <<sess[s].key, 1, 0, 5000, FALSE, <<"attribute_1">>>>),
              AnyReplies(ParticipantsResults))

ApiParticipantProperties(s) ==
    ApiMethod(s, "participant_properties",
              NewRequest("get_participant_properties",
                         <<sess[s].key, 1, 1, <<"attribute_1">>>>),
              AnyReplies({List(<<>>), Status(BadStatus), None}))

ApiResponses(s) ==
    ApiMethod(s, "responses",
              NewRequest("export_responses",
                         <<sess[s].key, 1, "json", "fr", "all">>),
              AnyReplies(ExportResults))

\* session.close()
ApiClose(s) ==
    /\ pc = "idle"
    /\ sess[s].made
    /\ request_id < MaxCalls
    /\ LET request == NewRequest("release_session_key", <<sess[s].key>>)
       IN \E reply \in ReleaseReplies \cup Misdirected(ReleaseReplies) :
            LET c == close(s, request, reply)
            IN /\ Posted(request)
               /\ sess' = [sess EXCEPT ![s] = c.session]
               /\ Called("close", s, request, reply,
                         IF c.raised THEN c.exc ELSE Return(None))
    /\ UNCHANGED <<run, pc, surveys, idx, psc1_from_token, data, files, writes,
                   exc, upstream, history>>
    /\ UNCHANGED <<dvars, pvars>>

NextAPI ==
    \/ \E s \in Sessions : ApiNew(s)
    \/ \E s \in Sessions : ApiSurveys(s)
    \/ \E s \in Sessions : ApiParticipants(s)
    \/ \E s \in Sessions : ApiParticipantProperties(s)
    \/ \E s \in Sessions : ApiResponses(s)
    \/ \E s \in Sessions : ApiClose(s)

SpecAPI == Init /\ [][NextAPI]_vars

-----------------------------------------------------------------------------
(* Properties *)

\* requests of the current process for method m
Requests(m) == {i \in 1..Len(sent) : sent[i].method = m}

\* the reply was received and is the answer to the request
Delivered(reply) == reply.net = "ok" /\ reply.idok

\* C1: in every run in which the session was constructed, exactly one
\* release_session_key request is sent: none while the with body runs, one
\* when download_json has ended, however the body was left.
C1_ReleaseExactlyOnce ==
    LET n == Cardinality(Requests("release_session_key"))
    IN /\ pc \in {"surveys", "participants", "responses", "save", "exit"}
            => n = 0
       /\ (pc = "done" /\ sess[Main].made) => n = 1
       /\ (pc = "done" /\ ~sess[Main].made) => n = 0

\* a run that ended by a LimeSurveyError of the second survey, key released
C1_Witness ==
    /\ pc = "done"
    /\ sess[Main].made
    /\ exc.raised /\ exc.etype = "LimeSurveyError"
    /\ idx = 2
    /\ Cardinality(Requests("release_session_key")) = 1

\* C2: when get_session_key yields anything but a string without error,
\* no further request is sent on the session: every request after the
\* first would carry a key, and none carries None.
C2_NoRequestWithoutKey ==
    \A i \in 2..Len(sent) : sent[i].params[1] # None

\* the empty-result status of a method
Sentinel(op) == IF op = "participants" THEN NoTokensFound ELSE NoData
EmptyResult(op) == IF op = "participants" THEN List(<<>>) ELSE Doc(<<>>)

\* C3: participants() and responses() return the empty result, and raise
\* nothing, whenever the result carries their empty-result status, whatever
\* the 'error' member of the response is.
C3_SentinelWins ==
    (/\ last.op \in {"participants", "responses"}
     /\ Delivered(last.reply)
     /\ last.reply.result = Status(Sentinel(last.op)))
        => last.out = Return(EmptyResult(last.op))

\* responses() met its sentinel together with a well-formed error object
C3_Witness ==
    /\ last.op = "responses"
    /\ last.reply = Reply(Status(NoData), RpcError)
    /\ last.out = Return(Doc(<<>>))

\* the session state Open: constructed with a key, not closed
Open(session) ==
    session.made /\ session.key.kind = "str" /\ session.http = "open"

\* C4: surveys(), participants() and responses() called on a session that
\* is not Open raise an invalid-state error and post no request.
C4_OnlyWhileOpen ==
    (/\ last.op \in {"surveys", "participants", "responses"}
     /\ ~Open(last.before))
        => /\ last.out.raised
           /\ last.out.etype = "InvalidStateError"
           /\ \A i \in 1..Len(sent) : sent[i] # last.request

\* C10: participants() and responses() raise LimeSurveyError with code
\* -32099 and the status as message whenever the result carries a status
\* that is not their empty-result status, whatever the 'error' member is.
C10_StatusOverridesError ==
    (/\ last.op \in {"participants", "responses"}
     /\ Delivered(last.reply)
     /\ last.reply.result.kind = "status"
     /\ last.reply.result.status # Sentinel(last.op))
        => last.out = Raise("LimeSurveyError", ImplementationDefined,
                            last.reply.result.status)

\* participants() met a status and a different error object
C10_Witness ==
    /\ last.op = "participants"
    /\ last.reply = Reply(Status(BadStatus), RpcError)
    /\ last.out = Raise("LimeSurveyError", ImplementationDefined, BadStatus)

-----------------------------------------------------------------------------
(* Properties of the loop of download_json *)

\* the survey the loop is at, and what the service holds for it
Current == surveys.items[idx]
ParticipantsOf(sid) == upstream.participants[sid].result
ExportOf(sid) == upstream.responses[sid].result

\* the step is the export of the current survey, and some response of it
\* has a token that is not in the mapping
UnmappedExport ==
    /\ pc = "responses"
    /\ sess[Main].key = IssuedKey
    /\ LET r == upstream'.responses[Current.sid]
       IN /\ Delivered(r)
          /\ r.result.kind = "b64"
          /\ r.result.doc.has
          /\ RekeyKeyError(r.result.doc, psc1_from_token)

Failure == {"LimeSurveyError", "KeyError"}
SurveyScoped == Failure \cup {"ValueError", "TypeError"}

\* position in the survey list of the survey a request is for
PositionOf(request) ==
    CHOOSE i \in 1..Len(surveys.items) :
        surveys.items[i].sid = request.params[2]

PerSurvey == Requests("list_participants") \cup Requests("export_responses")

C7_WriteIffChanged ==
    [][pc = "save" =>
          LET path == psytools_path(Current.surveyls_title)
              changed == files[path] = NoFile \/ files[path] # data
          IN /\ writes' = IF changed THEN writes + 1 ELSE writes
             /\ files'[path] = data
             /\ \A q \in Paths \ {path} : files'[q] = files[q]]_vars

\* a complete run of two surveys: one was written, the other skipped
C7_Witness ==
    /\ pc = "done"
    /\ ~exc.raised
    /\ surveys.kind = "list"
    /\ Len(surveys.items) = 2
    /\ writes = 1

\* runs k and k + 1 both ended without exception
BothComplete(k) == history[k].complete /\ history[k + 1].complete

\* no two surveys of the list the service holds derive the same path
DistinctPaths ==
    LET l == upstream.surveys.result.items
    IN \A i, j \in 1..Len(l) :
          psytools_path(l[i].surveyls_title) = psytools_path(l[j].surveyls_title)
              => i = j

\* C8 as claimed: of two consecutive complete runs the second writes no
\* file and leaves every file as the first left it, for any survey list.
C8_SecondRunWritesNothing ==
    \A k \in 1..(Len(history) - 1) :
        BothComplete(k)
            => /\ history[k + 1].writes = 0
               /\ history[k + 1].files = history[k].files

\* C8, amended: the same, when no two surveys of the list derive the same
\* artifact path.
C8_SecondRunWritesNothingDistinct ==
    \A k \in 1..(Len(history) - 1) :
        (BothComplete(k) /\ DistinctPaths)
            => /\ history[k + 1].writes = 0
               /\ history[k + 1].files = history[k].files

\* two complete runs; the first wrote two surveys, the second nothing
C8_Witness ==
    /\ Len(history) = 2
    /\ BothComplete(1)
    /\ history[1].writes = 2
    /\ history[2].writes = 0

\* attribute_1 of the participant listed (last) with token in plist
Attribute1(plist, token) ==
    LET i == CHOOSE i \in 1..Len(plist) :
                 /\ plist[i].token = token
                 /\ \A j \in (i + 1)..Len(plist) : plist[j].token # token
    IN plist[i].attribute_1

Listed(plist) == {plist[i].token : i \in 1..Len(plist)}

\* the participants listed for the current survey ([] on the sentinel)
CurrentParticipants ==
    IF ParticipantsOf(Current.sid).kind = "list"
    THEN ParticipantsOf(Current.sid).items ELSE <<>>

\* the record set responses() returned for the current survey
CurrentExport ==
    IF ExportOf(Current.sid).kind = "b64"
    THEN ExportOf(Current.sid).doc ELSE Doc(<<>>)

\* every entry of the serialisation is keyed by the PSC1 code of the token
\* of the response it holds
KeyedByOwnCode ==
    \A i \in 1..Len(data.text) : \A j \in 1..Len(data.text[i]) :
        LET e == data.text[i][j]
        IN /\ e.value.token \in Listed(CurrentParticipants)
           /\ e.key = Attribute1(CurrentParticipants, e.value.token)

\* C9 as claimed: the serialisation of a survey holds every response of
\* the export whose token is listed, unchanged, under the attribute_1 of
\* the participant with that token, and nothing under another key.
C9_EveryRecordRekeyed ==
    (pc = "save" /\ data.has)
        => LET doc == CurrentExport
           IN /\ Len(data.text) = Len(doc.responses)
              /\ \A i \in 1..Len(doc.responses) :
                   \A j \in 1..Len(doc.responses[i]) :
                     LET v == doc.responses[i][j].value
                     IN v.token \in Listed(CurrentParticipants)
                          => \E n \in 1..Len(data.text[i]) :
                               data.text[i][n] =
                                 [key |-> Attribute1(CurrentParticipants,
                                                     v.token),
                                  value |-> v]
              /\ KeyedByOwnCode

\* C9, amended: the serialisation holds, for every response of an element
\* of the export, an entry under the attribute_1 of the participant with
\* its token; the entry's value is the last response of that element whose
\* token maps to the same code, unchanged (the response itself when no
\* later response of the element maps to that code); nothing is keyed by
\* a token or by the code of another token.
C9_RekeyedLastWins ==
    (pc = "save" /\ data.has)
        => LET doc == CurrentExport
               Code(v) == Attribute1(CurrentParticipants, v.token)
           IN /\ Len(data.text) = Len(doc.responses)
              /\ \A i \in 1..Len(doc.responses) :
                   \A j \in 1..Len(doc.responses[i]) :
                     LET r == doc.responses[i]
                         v == r[j].value
                         later == {m \in j..Len(r) :
                                     Code(r[m].value) = Code(v)}
                         lastOne == CHOOSE m \in later :
                                        \A m2 \in later : m2 <= m
                     IN \E n \in 1..Len(data.text[i]) :
                          data.text[i][n] =
                            [key |-> Code(v), value |-> r[lastOne].value]
              /\ KeyedByOwnCode

\* a serialisation whose element holds two responses under two codes
C9_Witness ==
    /\ pc = "save"
    /\ data.has
    /\ Len(data.text) = 1
    /\ Len(data.text[1]) = 2
    /\ data.text[1][1].key < data.text[1][2].key
    /\ data.text[1][1].value.token = "tB"

-----------------------------------------------------------------------------
(* Properties of the error normalisation and of the transport *)

\* the payload has the shape the method returns on success
SuccessShape(op, result) ==
    IF op = "responses" THEN result.kind = "b64" ELSE result.kind = "list"

\* C11: surveys(), participants() and responses() raise LimeSurveyError
\* with exactly the code and message of the response's error object when
\* that object is well formed and the result is neither their success
\* shape nor a mapping with a 'status' item and no string (null, {}, a
\* list for responses()).
C11_ErrorObjectPropagates ==
    (/\ last.op \in {"surveys", "participants", "responses"}
     /\ Delivered(last.reply)
     /\ last.reply.error.kind = "error"
     /\ ~SuccessShape(last.op, last.reply.result)
     /\ last.reply.result.kind \notin {"status", "str"})
        => last.out = Raise("LimeSurveyError", last.reply.error.code,
                            last.reply.error.message)

\* the payload is the empty-result status of the method (surveys() has none)
KnownSentinel(op, result) ==
    op \in {"participants", "responses"} /\ result = Status(Sentinel(op))

\* C12: surveys(), participants() and responses() raise LimeSurveyError
\* when the response has no error object and its result is neither their
\* success shape nor their empty-result status; surveys() does not return
\* a mapping with a 'status' item.
C12_NoUnrecognizedSuccess ==
    (/\ last.op \in {"surveys", "participants", "responses"}
     /\ Delivered(last.reply)
     /\ last.reply.error = None
     /\ ~SuccessShape(last.op, last.reply.result)
     /\ ~KnownSentinel(last.op, last.reply.result))
        => /\ last.out.raised
           /\ last.out.etype = "LimeSurveyError"

\* C13: a call whose response carries another id than its request raises
\* AssertionError out of _post, whatever the response holds: the outcome
\* carries neither the result nor the error, and the instance keeps the key
\* it had (none when the call is the construction).
C13_IdMismatchIsFatal ==
    (/\ last.op # "none"
     /\ last.reply.net = "ok"
     /\ ~last.reply.idok)
        => /\ last.out = Raise("AssertionError", 0, "")
           /\ sess[last.session].key = last.before.key

\* the response that would have issued the key came with another id
C13_Witness ==
    /\ last.op = "__init__"
    /\ last.reply = [Reply(IssuedKey, None) EXCEPT !.idok = FALSE]
    /\ last.out.raised
    /\ sess[last.session].key = None

-----------------------------------------------------------------------------
(* Properties of the session scope of download_json *)

\* C14: when download_json has left the with statement of a session that
\* was constructed, by the end of the body or by an exception, the
\* session's key is None and its Requests session is closed, whatever the
\* service answered to release_session_key and also when that request
\* failed.
C14_ClosedAfterScope ==
    (pc = "done" /\ sess[Main].made)
        => /\ sess[Main].key = None
           /\ sess[Main].http = "closed"

\* C15: when an exception left the with body, the step that ends
\* download_json sends release_session_key, and the exception download_json
\* raises to its caller is the one that left the body.
C15_OriginalErrorSurvives ==
    [][(pc = "exit" /\ exc.raised) =>
          /\ pc' = "done"
          /\ Len(sent') = Len(sent) + 1
          /\ sent'[Len(sent')].method = "release_session_key"
          /\ exc' = exc]_vars

-----------------------------------------------------------------------------
(* Properties of the requests *)

\* C16: the ids of the requests of a process strictly increase in the
\* order the requests are built, so no two requests share an id, whichever
\* instances build them: a call of any instance builds a request whose id
\* is above the id of every request built before, by that instance or by
\* another.
C16_RequestIdsIncrease ==
    [][last' # last =>
          /\ sent' = Append(sent, last'.request)
          /\ \A i \in 1..Len(sent) : sent[i].id < last'.request.id
          /\ \A i, j \in 1..Len(sent') :
                i < j => sent'[i].id < sent'[j].id]_vars

\* two instances were constructed, then the first one built a request
C16_Witness ==
    /\ Len(sent) = 3
    /\ sent[1].method = "get_session_key"
    /\ sent[2].method = "get_session_key"
    /\ last.session = 1
    /\ last.op = "surveys"
    /\ last.request.id = 3
    /\ sess[2].made

\* C17: while the responses of a survey are fetched, re-keyed and saved,
\* psc1_from_token holds exactly the participants that participants()
\* returned for that survey: one entry per listed token, with the
\* participant's attribute_1, and no token of an earlier survey.
C17_MappingIsOfCurrentSurvey ==
    pc \in {"responses", "save"}
        => /\ DictKeys(psc1_from_token) = Listed(CurrentParticipants)
           /\ \A t \in DictKeys(psc1_from_token) :
                 DictValue(psc1_from_token, t) =
                     Attribute1(CurrentParticipants, t)

\* the first survey listed tB, the second did not, and a response of the
\* second survey with token tB was not resolved
C17_Witness ==
    /\ pc = "exit"
    /\ idx = 2
    /\ exc = Raise("KeyError", 0, "")
    /\ ParticipantsOf(surveys.items[1].sid).kind = "list"
    /\ "tB" \in Listed(ParticipantsOf(surveys.items[1].sid).items)
    /\ DictKeys(psc1_from_token) = {"tA"}
    /\ ExportOf(Current.sid).kind = "b64"

\* the serialisation of {'responses': []}
EmptyArtifact == [has |-> TRUE, text |-> <<>>]

\* the service answers the request of the current survey with status
AnswersStatus(answer, status) ==
    /\ sess[Main].key = IssuedKey
    /\ Delivered(answer)
    /\ answer.result = Status(status)

\* C18: a survey whose list_participants is answered 'No Tokens found' and
\* whose export_responses is answered 'No Data, could not get max id.' is
\* processed without exception: the mapping is empty, the serialisation
\* is that of an empty response list, and the save step writes it to the
\* survey's file unless the file already holds it.
C18_BothSentinelsProcessed ==
    [][/\ (/\ pc = "participants"
           /\ AnswersStatus(upstream'.participants[Current.sid],
                            NoTokensFound))
            => /\ pc' = "responses"
               /\ psc1_from_token' = <<>>
               /\ exc' = exc
       /\ (/\ pc = "responses"
           /\ ParticipantsOf(Current.sid) = Status(NoTokensFound)
           /\ AnswersStatus(upstream'.responses[Current.sid], NoData))
            => /\ pc' = "save"
               /\ data' = EmptyArtifact
               /\ exc' = exc
       /\ (/\ pc = "save"
           /\ ParticipantsOf(Current.sid) = Status(NoTokensFound)
           /\ ExportOf(Current.sid) = Status(NoData))
            => LET path == psytools_path(Current.surveyls_title)
               IN /\ data = EmptyArtifact
                  /\ files'[path] = EmptyArtifact
                  /\ writes' = IF files[path] = EmptyArtifact
                                THEN writes ELSE writes + 1
                  /\ ~exc'.raised]_vars

\* a complete run whose only survey had both sentinels: its file was
\* written with the empty response list
C18_Witness ==
    /\ pc = "done"
    /\ ~exc.raised
    /\ surveys.kind = "list"
    /\ Len(surveys.items) = 1
    /\ ParticipantsOf(Current.sid) = Status(NoTokensFound)
    /\ ExportOf(Current.sid) = Status(NoData)
    /\ writes = 1
    /\ files[psytools_path(Current.surveyls_title)] = EmptyArtifact

\* C19: the requests of a run are sent in this order: get_session_key
\* first and only first; when the session was constructed, list_surveys
\* second and only second; then, survey after survey in the order of the
\* list, list_participants of the survey directly followed by its
\* export_responses; release_session_key after every other request, and
\* sent by the end of every run whose session was constructed.
C19_RequestOrder ==
    LET n == Len(sent)
        M(i) == sent[i].method
        Sid(i) == sent[i].params[2]
    IN /\ \A i \in 1..n : (M(i) = "get_session_key") <=> (i = 1)
       /\ \A i \in 1..n : (M(i) = "list_surveys") <=> (i = 2)
       /\ \A i \in 1..n :
            M(i) = "list_participants"
                => /\ i >= 3
                   /\ \/ /\ M(i - 1) = "list_surveys"
                         /\ PositionOf(sent[i]) = 1
                      \/ /\ M(i - 1) = "export_responses"
                         /\ PositionOf(sent[i]) = PositionOf(sent[i - 1]) + 1
       /\ \A i \in 1..n :
            M(i) = "export_responses"
                => /\ i >= 4
                   /\ M(i - 1) = "list_participants"
                   /\ Sid(i - 1) = Sid(i)
       /\ \A i \in 1..n : M(i) = "release_session_key" => i = n
       /\ (pc = "done" /\ sess[Main].made)
            => n >= 3 /\ M(n) = "release_session_key"

\* a complete run over two surveys: seven requests
C19_Witness ==
    /\ pc = "done"
    /\ ~exc.raised
    /\ Len(sent) = 7
    /\ sent[5].method = "list_participants"
    /\ sent[5].params[2] = surveys.items[2].sid

\* the error member reaches the decorator as the service sent it: the
\* method does not rewrite it for this result
ErrorPassesThrough(op, result) ==
    \/ op \in {"surveys", "participant_properties"}
    \/ op = "participants" /\ result.kind # "status"
    \/ op = "responses" /\ result.kind = "b64"

\* what the method returns for a result it accepts
Payload(op, result) == IF op = "responses" THEN result.doc ELSE result

\* C20: every call of surveys(), participants(), participant_properties()
\* or responses() whose response was received either returns a payload or
\* raises LimeSurveyError, nothing else; with the error member as the
\* service sent it, the call returns the payload when the error is empty,
\* raises LimeSurveyError with the error's code and message when it is a
\* mapping with both, and raises LimeSurveyError(-32603, 'Unexpected
\* JSON-RPC error type') for any other error.
C20_TwoOutcomes ==
    (/\ last.op \in {"surveys", "participants", "participant_properties",
                     "responses"}
     /\ Delivered(last.reply))
        => LET result == last.reply.result
               error == last.reply.error
           IN /\ last.out.raised => last.out.etype = "LimeSurveyError"
              /\ ErrorPassesThrough(last.op, result)
                   => last.out =
                        IF ~Truthy(error)
                        THEN Return(Payload(last.op, result))
                        ELSE IF error.kind = "error"
                        THEN Raise("LimeSurveyError", error.code,
                                   error.message)
                        ELSE Raise("LimeSurveyError", InternalError,
                                   UnexpectedType)

-----------------------------------------------------------------------------
(* dawba/imagen_dawba_process.py: _create_psc2_file                        *)
(*                                                                         *)
(* A text is a sequence of tokens: TAB, NL, and the non-empty strings      *)
(* between them. A string of a field is a record tagged by "t":            *)
(*   Text(s)      the characters s                                         *)
(*   DateText(d)  'dd.mm.yy' of the day number d                           *)
(*   IntText(n)   str(n)                                                   *)
(* A line of the input is its fields and whether '\n' ends it; an item     *)
(* of line.split('\t') is a field's string and whether '\n' ends it.       *)

TAB == [t |-> "tab"]
NL == [t |-> "nl"]
Text(s) == [t |-> "str", s |-> s]
DateText(d) == [t |-> "date", day |-> d]
IntText(n) == [t |-> "int", n |-> n]

\* line.split('\t'): the '\n' of the line stays at the end of the last item
split(line) ==
    [i \in 1..Len(line.fields) |->
        [text |-> line.fields[i], nl |-> line.nl /\ i = Len(line.fields)]]

\* the string of one item: '' is no token
ItemText(item) ==
    (IF item.text = Text("") THEN <<>> ELSE <<item.text>>)
        \o (IF item.nl THEN <<NL>> ELSE <<>>)

\* '\t'.join(items)
RECURSIVE join(_)
join(items) ==
    IF items = <<>> THEN <<>>
    ELSE IF Len(items) = 1 THEN ItemText(items[1])
    ELSE ItemText(items[1]) \o <<TAB>> \o join(Tail(items))

\* the string of a line as it is in the file
LineText(line) == join(split(line))

\* the string is ''
IsEmptyString(item) == item.text = Text("") /\ ~item.nl

\* 'sstartdate' in field or 'p1startdate' in field
IsDateField(item) ==
    item.text.t = "str" /\ item.text.s \in {"sstartdate", "p1startdate"}

\* the conversion table passed to _create_psc2_file, and the tables of
\* imagen_databank it reads: P2 has no date of birth, P3 no PSC1 code
psc2_from_dawba == ("D1" :> "P1") @@ ("D2" :> "P2") @@ ("D3" :> "P3")
DOB_FROM_PSC2 == ("P1" :> 40) @@ ("P3" :> 50)
PSC1_FROM_PSC2 == ("P1" :> "S1") @@ ("P2" :> "S2")

\* dawba in psc2_from_dawba, dawba being items[0]
InTable(item) ==
    ~item.nl /\ item.text.t = "str" /\ item.text.s \in DOMAIN psc2_from_dawba

\* datetime.strptime(item, '%d.%m.%y').date(): the day number, or ValueError
strptime(item) ==
    IF item.text.t = "date" /\ ~item.nl THEN Return(item.text.day)
    ELSE Raise("ValueError", 0, "")

\* one pass of "for i in convert" over an item (lines 151-162)
ConvertDate(item, psc2) ==
    IF IsEmptyString(item) THEN Return(item)
    ELSE IF psc2 \in DOMAIN DOB_FROM_PSC2
    THEN LET startdate == strptime(item)
         IN IF startdate.raised THEN startdate
            ELSE Return([text |-> IntText(startdate.value - DOB_FROM_PSC2[psc2]),
                         nl |-> FALSE])
    ELSE Return([text |-> Text(""), nl |-> FALSE])

\* lines 144-163 for a line whose code is in the table: the items to write,
\* or the exception raised
ConvertItems(items, columns) ==
    LET psc2 == psc2_from_dawba[items[1].text.s]
        date(i) == ConvertDate(items[i], psc2)
    IN IF psc2 \notin DOMAIN PSC1_FROM_PSC2 THEN Raise("KeyError", 0, "")
       ELSE IF \E i \in columns : i > Len(items)
       THEN Raise("IndexError", 0, "")
       ELSE IF \E i \in columns : date(i).raised
       THEN Raise("ValueError", 0, "")
       ELSE Return([i \in 1..Len(items) |->
                       IF i = 1 THEN [text |-> Text(psc2), nl |-> items[1].nl]
                       ELSE IF i \in columns THEN date(i).value
                       ELSE items[i]])

\* the input files
\* DW is in no table (withdrawn, missing or unknown: lines 164-170)
DawbaCodes == {"D1", "D2", "D3", "DW"}
DateValues == {Text(""), DateText(100), Text("n/a")}
Headers ==
    {<<Text("dawba"), Text("sstartdate"), Text("q1")>>,
     <<Text("dawba"), Text("q1"), Text("p1startdate")>>}

\* the fields of a line under header h, with code and date value
Fields(h, code, value) ==
    [i \in 1..Len(h) |->
        IF i = 1 THEN Text(code)
        ELSE IF IsDateField([text |-> h[i], nl |-> FALSE]) THEN value
        ELSE Text("x")]

RowSeqs(h) ==
    UNION {[1..n -> {Fields(h, c, v) : c \in DawbaCodes, v \in DateValues}] :
               n \in 0..MaxLines}

\* every line of a file ends with '\n', except perhaps the last one
DawbaFiles ==
    UNION {{[header |-> [fields |-> h, nl |-> TRUE],
             lines |-> [i \in 1..Len(rows) |->
                           [fields |-> rows[i],
                            nl |-> i < Len(rows) \/ final]]] :
                rows \in RowSeqs(h), final \in BOOLEAN} : h \in Headers}

InitDawba ==
    /\ run = 0
    /\ pc = "idle"
    /\ request_id = 0
    /\ sent = <<>>
    /\ sess = [s \in Sessions |-> NoSession]
    /\ surveys = None
    /\ idx = 0
    /\ psc1_from_token = <<>>
    /\ data = NoFile
    /\ files = [p \in Paths |-> NoFile]
    /\ writes = 0
    /\ exc = NoExc
    /\ upstream = [surveys |-> Unset,
                   participants |-> [i \in Sids |-> Unset],
                   responses |-> [i \in Sids |-> Unset]]
    /\ history = <<>>
    /\ last = NoCall
    /\ dawba_file \in DawbaFiles
    /\ psc2_file = <<>>
    /\ convert = {}
    /\ position = 0
    /\ dawba_pc = "open"
    /\ dawba_exc = NoExc
    /\ NoTitles

download == <<run, pc, request_id, sent, sess, surveys, idx, psc1_from_token,
              data, files, writes, exc, upstream, history, last>>

\* lines 134-140: the header is read, the date columns found, the header
\* written
WriteHeader ==
    /\ dawba_pc = "open"
    /\ LET items == split(dawba_file.header)
       IN /\ convert' = {i \in 1..Len(items) : IsDateField(items[i])}
          /\ psc2_file' = LineText(dawba_file.header)
    /\ position' = 1
    /\ dawba_pc' = "lines"
    /\ UNCHANGED <<dawba_file, dawba_exc>>
    /\ UNCHANGED <<download, pvars>>

\* lines 141-170: one line of the loop
ConvertLine ==
    /\ dawba_pc = "lines"
    /\ position <= Len(dawba_file.lines)
    /\ LET items == split(dawba_file.lines[position])
       IN IF InTable(items[1])
          THEN LET out == ConvertItems(items, convert)
               IN IF out.raised
                  THEN /\ dawba_exc' = out
                       /\ dawba_pc' = "done"
                       /\ UNCHANGED <<psc2_file, position>>
                  ELSE /\ psc2_file' = psc2_file \o join(out.value)
                       /\ position' = position + 1
                       /\ UNCHANGED <<dawba_pc, dawba_exc>>
          ELSE /\ position' = position + 1
               /\ UNCHANGED <<psc2_file, dawba_pc, dawba_exc>>
    /\ UNCHANGED <<dawba_file, convert>>
    /\ UNCHANGED <<download, pvars>>

\* the loop is over: both files are closed and the function returns
ReturnDawba ==
    /\ dawba_pc = "lines"
    /\ position > Len(dawba_file.lines)
    /\ dawba_pc' = "done"
    /\ UNCHANGED <<dawba_file, psc2_file, convert, position, dawba_exc>>
    /\ UNCHANGED <<download, pvars>>

NextDawba ==
    \/ WriteHeader
    \/ ConvertLine
    \/ ReturnDawba

SpecDawba == InitDawba /\ [][NextDawba]_vars

-----------------------------------------------------------------------------
(* The path derivation of download_json (lines 277-282) on any two titles *)

TitleChars == {"a", " ", "-", "_"}
AllTitles == UNION {[1..n -> TitleChars] : n \in 0..MaxTitle}

InitPath ==
    /\ run = 0
    /\ pc = "idle"
    /\ request_id = 0
    /\ sent = <<>>
    /\ sess = [s \in Sessions |-> NoSession]
    /\ surveys = None
    /\ idx = 0
    /\ psc1_from_token = <<>>
    /\ data = NoFile
    /\ files = [p \in Paths |-> NoFile]
    /\ writes = 0
    /\ exc = NoExc
    /\ upstream = [surveys |-> Unset,
                   participants |-> [i \in Sids |-> Unset],
                   responses |-> [i \in Sids |-> Unset]]
    /\ history = <<>>
    /\ last = NoCall
    /\ NoDawba
    /\ titles \in AllTitles \X AllTitles
    /\ derived = <<>>

\* psytools_path of the two surveys
DerivePaths ==
    /\ derived = <<>>
    /\ derived' = <<psytools_path(titles[1]), psytools_path(titles[2])>>
    /\ UNCHANGED <<download, dvars, titles>>

NextPath == DerivePaths

SpecPath == InitPath /\ [][NextPath]_vars

-----------------------------------------------------------------------------
(* Properties of _create_psc2_file *)

\* the first field of the line is a key of the conversion table
CodeInTable(line) == line.fields[1].s \in DOMAIN psc2_from_dawba

\* column i of the header is a date column
DateColumn(i) ==
    dawba_file.header.fields[i].s \in {"sstartdate", "p1startdate"}

\* the line with its code replaced by the PSC2 code and, in the date
\* columns, '' or the age in days
ConvertedLine(line) ==
    LET psc2 == psc2_from_dawba[line.fields[1].s]
        Age(field) ==
            IF field.t = "date" /\ psc2 \in DOMAIN DOB_FROM_PSC2
            THEN IntText(field.day - DOB_FROM_PSC2[psc2])
            ELSE Text("")
    IN [fields |-> [i \in 1..Len(line.fields) |->
                       IF i = 1 THEN Text(psc2)
                       ELSE IF DateColumn(i) THEN Age(line.fields[i])
                       ELSE line.fields[i]],
        nl |-> line.nl]

\* the converted lines of the table's subjects, in input order
RECURSIVE ConvertedLines(_)
ConvertedLines(lines) ==
    IF lines = <<>> THEN <<>>
    ELSE (IF CodeInTable(Head(lines))
          THEN LineText(ConvertedLine(Head(lines))) ELSE <<>>)
             \o ConvertedLines(Tail(lines))

\* C21: when _create_psc2_file has returned, the output file holds the
\* header of the input unchanged, then, in input order, exactly the lines
\* whose first field is a key of the conversion table, each with that field
\* replaced by the PSC2 code and each date column holding '' or the age in
\* days; no other line and no date is written.
C21_Psc2FileHoldsConvertedRows ==
    (dawba_pc = "done" /\ ~dawba_exc.raised)
        => psc2_file = LineText(dawba_file.header)
                           \o ConvertedLines(dawba_file.lines)

-----------------------------------------------------------------------------
(* Properties of the path derivation *)

\* sub occurs in the string s
Contains(s, sub) ==
    \E i \in 1..(Len(s) - Len(sub) + 1) :
        SubSeq(s, i, i + Len(sub) - 1) = sub

\* the title holds neither '_' nor ' - '
PlainTitle(title) ==
    ~Contains(title, <<"_">>) /\ ~Contains(title, <<" ", "-", " ">>)

\* C22 as claimed: two surveys with distinct titles derive distinct
\* artifact paths, whatever the titles.
C22_PathInjective ==
    (derived # <<>> /\ titles[1] # titles[2]) => derived[1] # derived[2]

\* C22, amended: two surveys with distinct titles derive distinct artifact
\* paths when neither title holds '_' or ' - '.
C22_PathInjectiveOnPlainTitles ==
    (/\ derived # <<>>
     /\ titles[1] # titles[2]
     /\ PlainTitle(titles[1])
     /\ PlainTitle(titles[2]))
        => derived[1] # derived[2]

\* two plain titles of the same characters, with spaces and '-', and their
\* two paths
C22_Witness ==
    /\ titles = << <<"a", " ", "-">>, <<"a", "-", " ">> >>
    /\ derived = << <<"a", "_", "-", ".json">>, <<"a", "-", "_", ".json">> >>

-----------------------------------------------------------------------------
(* Properties of the re-keying *)

\* the PSC1 codes the responses of an exported element map to
Codes(element) ==
    {Attribute1(CurrentParticipants, element[j].value.token) :
         j \in 1..Len(element)}

\* C23 as claimed: the serialised, re-keyed response list has the length
\* of the exported list and each of its elements has as many entries as
\* the exported element, whatever the tokens of the element's responses.
C23_NoRecordLost ==
    (pc = "save" /\ data.has)
        => /\ Len(data.text) = Len(CurrentExport.responses)
           /\ \A i \in 1..Len(data.text) :
                 Len(data.text[i]) = Len(CurrentExport.responses[i])

\* C23, amended: the re-keyed response list has the length of the exported
\* list and each of its elements has one entry per PSC1 code its responses
\* map to: as many entries as the exported element exactly when no two
\* responses of the element map to the same code.
C23_OneEntryPerCode ==
    (pc = "save" /\ data.has)
        => /\ Len(data.text) = Len(CurrentExport.responses)
           /\ \A i \in 1..Len(data.text) :
                 Len(data.text[i]) =
                     Cardinality(Codes(CurrentExport.responses[i]))

\* an element of two responses whose tokens map to one code was re-keyed
\* to one entry
C23_Witness ==
    /\ pc = "save"
    /\ data.has
    /\ Len(CurrentExport.responses) = 1
    /\ Len(CurrentExport.responses[1]) = 2
    /\ Len(data.text[1]) = 1

====
